---- MODULE Spec2Model ----
(***************************************************************************)
(* Insertive (Obsidian plugin): the snippet repository kept in             *)
(* plugin.settings (three parallel objects snippets / icons / groups),     *)
(* its persistence through saveData, the command registry, and the         *)
(* template engine SnippetProcessor.processTemplate.                       *)
(*                                                                         *)
(* A JavaScript string is a sequence of one-character strings.  A          *)
(* JavaScript object is a sequence of <<key, value>> pairs in the order    *)
(* Object.keys enumerates them.                                            *)
(***************************************************************************)
EXTENDS Integers, Sequences, FiniteSets, TLC

VARIABLES
    phase,       \* "init" before onload, "loaded" after it
    settings,    \* plugin.settings: [snippets, icons, groups]
    disk,        \* content of the durable store (data.json)
    inflight,    \* saveData calls that have not settled: {[id, data]}
    registered,  \* CommandManager.registeredCommands (keys, prefix left out)
    rows,        \* keys of the .setting-item rows the settings tab shows
    listening,   \* the list container shown has the listeners of enableDragToReorder
    modal,       \* the open ConfirmModal: <<>> or <<[key, value]>>
    notices,     \* number of 'Failed to save Insertive settings' notices
    last,        \* the last handler that ran and how it ended
    nOps,        \* handlers of user actions that have run
    nIssued,     \* saveSettings calls made by mutating operations
    nSettled,    \* of these, how many have settled (resolved or rejected)
    nFailed,     \* of these, how many were rejected
    nResync,     \* registerSnippetCommands calls made by saveSettings
    tpl,         \* template engine: snippetText
    sel,         \* template engine: selectedText
    out,         \* template engine: <<>> or <<result of processTemplate>>
    candidate,   \* key validator: the key handed to validateKey
    verdict,     \* key validator: "none" or the outcome of validateKey
    menu         \* context menu: <<>> or <<the entry addContextMenu has added>>

vars == <<phase, settings, disk, inflight, registered, rows, listening, modal, notices,
          last, nOps, nIssued, nSettled, nFailed, nResync, tpl, sel, out,
          candidate, verdict, menu>>

repoVars == <<phase, settings, disk, inflight, registered, rows, listening, modal,
              notices, last, nOps, nIssued, nSettled, nFailed, nResync>>

tplVars == <<tpl, sel, out>>

valVars == <<candidate, verdict>>

-----------------------------------------------------------------------------
(* Bounds *)

\* user actions (clicks on Add Snippet, Replace, Cancel, Save, Delete; drops) in one behaviour
MaxOps == 3

-----------------------------------------------------------------------------
(* JavaScript values *)

\* the value undefined
Undefined == <<"undefined">>

\* a function inherited from Object.prototype (obj["constructor"])
InheritedFn == <<"function">>

\* the property name undefined is coerced to
UndefinedKey == <<"u", "n", "d", "e", "f", "i", "n", "e", "d">>

Constructor == <<"c", "o", "n", "s", "t", "r", "u", "c", "t", "o", "r">>

\* property names every object inherits
ObjectPrototypeProps == {Constructor}

Digits == {"0", "1", "2", "3", "4", "5", "6", "7", "8", "9"}

DigitVal(c) ==
    CASE c = "0" -> 0 [] c = "1" -> 1 [] c = "2" -> 2 [] c = "3" -> 3
      [] c = "4" -> 4 [] c = "5" -> 5 [] c = "6" -> 6 [] c = "7" -> 7
      [] c = "8" -> 8 [] c = "9" -> 9

RECURSIVE NumVal(_)
NumVal(s) ==
    IF s = <<>> THEN 0
    ELSE 10 * NumVal(SubSeq(s, 1, Len(s) - 1)) + DigitVal(s[Len(s)])

\* a canonical array index: such property names are enumerated first, ascending
IsArrayIndex(k) ==
    /\ Len(k) > 0
    /\ \A i \in 1..Len(k) : k[i] \in Digits
    /\ (Len(k) = 1 \/ k[1] # "0")

\* !v is false
Truthy(v) == v # Undefined /\ v # <<>>

Min(a, b) == IF a < b THEN a ELSE b
Max(a, b) == IF a > b THEN a ELSE b

-----------------------------------------------------------------------------
(* JavaScript objects *)

Keys(o) == [i \in 1..Len(o) |-> o[i][1]]

KeySet(o) == {o[i][1] : i \in 1..Len(o)}

Has(o, k) == k \in KeySet(o)

\* o[k]
Get(o, k) ==
    IF Has(o, k) THEN (CHOOSE p \in {o[i] : i \in 1..Len(o)} : p[1] = k)[2]
    ELSE IF k \in ObjectPrototypeProps THEN InheritedFn
    ELSE Undefined

\* o[k] = v
Put(o, k, v) ==
    IF Has(o, k)
    THEN [i \in 1..Len(o) |-> IF o[i][1] = k THEN <<k, v>> ELSE o[i]]
    ELSE IF IsArrayIndex(k)
    THEN LET below == Cardinality({i \in 1..Len(o) :
                          IsArrayIndex(o[i][1]) /\ NumVal(o[i][1]) < NumVal(k)})
         IN  SubSeq(o, 1, below) \o <<<<k, v>>>> \o SubSeq(o, below + 1, Len(o))
    ELSE Append(o, <<k, v>>)

\* delete o[k]
RECURSIVE Del(_, _)
Del(o, k) ==
    IF o = <<>> THEN <<>>
    ELSE IF o[1][1] = k THEN Del(Tail(o), k)
    ELSE <<o[1]>> \o Del(Tail(o), k)

\* JSON.stringify then JSON.parse: properties holding undefined or a function are dropped
RECURSIVE JsonObj(_)
JsonObj(o) ==
    IF o = <<>> THEN <<>>
    ELSE IF o[1][2] \in {Undefined, InheritedFn} THEN JsonObj(Tail(o))
    ELSE <<o[1]>> \o JsonObj(Tail(o))

-----------------------------------------------------------------------------
(* Program constants *)

\* CONSTANTS.DEFAULT_ICON = 'stamp'
DEFAULT_ICON == <<"s", "t", "a", "m", "p">>

Hand == <<"h", "a", "n", "d">>

Hello == <<"h", "e", "l", "l", "o">>

Greet == <<"g", "r", "e", "e", "t">>

\* "_Hello World_"
HelloText == <<"_", "H", "e", "l", "l", "o", " ", "W", "o", "r", "l", "d", "_">>

\* "Hello {1} (from Insertive)"
GreetText ==
    <<"H", "e", "l", "l", "o", " ", "{", "1", "}", " ", "(", "f", "r", "o", "m", " ",
      "I", "n", "s", "e", "r", "t", "i", "v", "e", ")">>

\* CONSTANTS.DEFAULT_SETTINGS
DEFAULT_SETTINGS ==
    [snippets |-> <<<<Hello, HelloText>>, <<Greet, GreetText>>>>,
     icons    |-> <<<<Hello, DEFAULT_ICON>>, <<Greet, Hand>>>>,
     groups   |-> <<<<Hello, <<>>>>, <<Greet, <<>>>>>>]

Fields == {"snippets", "icons", "groups"}

-----------------------------------------------------------------------------
(* Key Validator *)

\* String.prototype.trim removes these from both ends
WhiteSpace == {" ", "\t", "\n", "\r"}

RECURSIVE TrimStart(_)
TrimStart(s) ==
    IF s # <<>> /\ s[1] \in WhiteSpace THEN TrimStart(Tail(s)) ELSE s

RECURSIVE TrimEnd(_)
TrimEnd(s) ==
    IF s # <<>> /\ s[Len(s)] \in WhiteSpace THEN TrimEnd(SubSeq(s, 1, Len(s) - 1)) ELSE s

Trim(s) == TrimEnd(TrimStart(s))

Letters ==
    {"a", "b", "c", "d", "e", "f", "g", "h", "i", "j", "k", "l", "m",
     "n", "o", "p", "q", "r", "s", "t", "u", "v", "w", "x", "y", "z",
     "A", "B", "C", "D", "E", "F", "G", "H", "I", "J", "K", "L", "M",
     "N", "O", "P", "Q", "R", "S", "T", "U", "V", "W", "X", "Y", "Z"}

\* the character class [a-zA-Z0-9_-]
KeyChars == Letters \cup Digits \cup {"_", "-"}

\* validateKey with the test of the pattern before the test for a space
validateKeyPatternFirst(key) ==
    IF ~Truthy(key) \/ Trim(key) = <<>> THEN "empty"
    ELSE IF ~(\A i \in 1..Len(key) : key[i] \in KeyChars) THEN "characters"
    ELSE IF \E i \in 1..Len(key) : key[i] = " " THEN "spaces"
    ELSE ""

\* validateKey without the test of the pattern /^[a-zA-Z0-9_-]+$/
validateKeyWithoutPattern(key) ==
    IF ~Truthy(key) \/ Trim(key) = <<>> THEN "empty"
    ELSE IF \E i \in 1..Len(key) : key[i] = " " THEN "spaces"
    ELSE ""

\* SnippetValidator.validateKey: the message kind, "" when the key is valid
validateKey(key) ==
    IF ~Truthy(key) \/ Trim(key) = <<>> THEN "empty"
    ELSE IF \E i \in 1..Len(key) : key[i] = " " THEN "spaces"
    ELSE IF ~(\A i \in 1..Len(key) : key[i] \in KeyChars) THEN "characters"
    ELSE ""

-----------------------------------------------------------------------------
(* Snippet repository: what each handler does to plugin.settings *)

\* addNewSnippet that gives every record the default icon
addNewSnippetResettingIcons(s, key, value) ==
    [snippets |-> Put(s.snippets, key, value),
     icons    |-> [i \in 1..Len(Put(s.snippets, key, value)) |->
                      <<Put(s.snippets, key, value)[i][1], DEFAULT_ICON>>],
     groups   |-> Put(s.groups, key, <<>>)]

\* InsertiveSettingTab.addNewSnippet, up to the save
addNewSnippet(s, key, value) ==
    [snippets |-> Put(s.snippets, key, value),
     icons    |-> Put(s.icons, key, DEFAULT_ICON),
     groups   |-> Put(s.groups, key, <<>>)]

\* replaceSnippet that stores the record as a new one, with the default icon and no group
replaceSnippetAsNew(s, key, value) ==
    [snippets |-> Put(s.snippets, key, value),
     icons    |-> Put(s.icons, key, DEFAULT_ICON),
     groups   |-> Put(s.groups, key, <<>>)]

\* InsertiveSettingTab.replaceSnippet, up to the save
replaceSnippet(s, key, value) ==
    [s EXCEPT !.snippets = Put(s.snippets, key, value)]

\* InsertiveSettingTab.handleDeleteSnippet, up to the save
handleDeleteSnippet(s, key) ==
    [snippets |-> Del(s.snippets, key),
     icons    |-> IF Truthy(Get(s.icons, key)) THEN Del(s.icons, key) ELSE s.icons,
     groups   |-> IF Truthy(Get(s.groups, key)) THEN Del(s.groups, key) ELSE s.groups]

\* handleSave that assigns the new key without removing the old key
handleSaveKeepingOriginal(s, originalKey, key, value, icon, group) ==
    [snippets |-> Put(s.snippets, key, value),
     icons    |-> Put(s.icons, key, icon),
     groups   |-> Put(s.groups, key, group)]

\* EditSnippetModal.handleSave after its checks, up to the save
handleSave(s, originalKey, key, value, icon, group) ==
    [snippets |-> Put(Del(s.snippets, originalKey), key, value),
     icons    |-> Put(Del(s.icons, originalKey), key, icon),
     groups   |-> Put(Del(s.groups, originalKey), key, group)]

\* the outcome of the checks of EditSnippetModal.handleSave
handleSaveCheck(s, originalKey, key, value) ==
    IF ~Truthy(key) \/ ~Truthy(value) THEN "missing"
    ELSE IF key # originalKey /\ validateKey(key) # "" THEN "invalid"
    ELSE IF key # originalKey /\ Truthy(Get(s.snippets, key)) THEN "exists"
    ELSE "ok"

\* handleAddSnippetCheck without the call of the Key Validator
handleAddSnippetCheckUnvalidated(s, key, value) ==
    IF ~Truthy(key) \/ ~Truthy(value) THEN "missing"
    ELSE IF Truthy(Get(s.snippets, key)) THEN "confirm"
    ELSE "ok"

\* the outcome of the checks of InsertiveSettingTab.handleAddSnippet
handleAddSnippetCheck(s, key, value) ==
    IF ~Truthy(key) \/ ~Truthy(value) THEN "missing"
    ELSE IF validateKey(key) # "" THEN "invalid"
    ELSE IF Truthy(Get(s.snippets, key)) THEN "confirm"
    ELSE "ok"

\* Array.prototype.splice: the start index it uses (0-based)
SpliceStart(len, start) ==
    IF start < 0 THEN Max(len + start, 0) ELSE Min(start, len)

\* const [movedKey] = keys.splice(fromIndex, 1)
SpliceOut(keys, fromIndex) ==
    LET at == SpliceStart(Len(keys), fromIndex)
    IN  IF at < Len(keys)
        THEN [moved |-> keys[at + 1],
              rest  |-> SubSeq(keys, 1, at) \o SubSeq(keys, at + 2, Len(keys))]
        ELSE [moved |-> UndefinedKey, rest |-> keys]

\* keys.splice(toIndex, 0, movedKey)
SpliceIn(keys, toIndex, movedKey) ==
    LET at == SpliceStart(Len(keys), toIndex)
    IN  SubSeq(keys, 1, at) \o <<movedKey>> \o SubSeq(keys, at + 1, Len(keys))

\* keys.forEach(k => { fresh[k] = o[k] })
RECURSIVE Rebuild(_, _, _)
Rebuild(fresh, keys, o) ==
    IF keys = <<>> THEN fresh
    ELSE Rebuild(Put(fresh, keys[1], Get(o, keys[1])), Tail(keys), o)

\* the drop handler of enableDragToReorder from 'Reorder in settings', up to the save
reorder(s, fromIndex, toIndex) ==
    LET taken == SpliceOut(Keys(s.snippets), fromIndex)
        keys  == SpliceIn(taken.rest, toIndex, taken.moved)
    IN  [snippets |-> Rebuild(<<>>, keys, s.snippets),
         icons    |-> Rebuild(<<>>, keys, s.icons),
         groups   |-> Rebuild(<<>>, keys, s.groups)]

-----------------------------------------------------------------------------
(* Persistence *)

None == <<>>

Some(x) == <<x>>

\* what saveData(settings) leaves in the store: JSON.stringify(settings)
Stored(s) ==
    [snippets |-> Some(JsonObj(s.snippets)),
     icons    |-> Some(JsonObj(s.icons)),
     groups   |-> Some(JsonObj(s.groups))]

\* no data.json: loadData resolves to null
NoData == [snippets |-> None, icons |-> None, groups |-> None]

\* Object.assign({}, CONSTANTS.DEFAULT_SETTINGS, loadedData)
Assigned(loadedData) ==
    [f \in Fields |->
        IF loadedData[f] # None THEN loadedData[f] ELSE Some(DEFAULT_SETTINGS[f])]

\* Object.keys(snippets).forEach(key => { fresh[key] = value })
RECURSIVE Backfill(_, _, _)
Backfill(fresh, keys, value) ==
    IF keys = <<>> THEN fresh
    ELSE Backfill(Put(fresh, keys[1], value), Tail(keys), value)

\* InsertivePlugin.loadSettings: the settings it leaves and the saveData calls it makes
loadSettings(loadedData, loadOk, saveOk) ==
    LET a      == Assigned(loadedData)
        snips  == a.snippets[1]
        noIcon == a.icons = None
        icons  == IF noIcon THEN Backfill(<<>>, Keys(snips), DEFAULT_ICON) ELSE a.icons[1]
        noGrp  == a.groups = None
        groups == IF noGrp THEN Backfill(<<>>, Keys(snips), <<>>) ELSE a.groups[1]
        s1     == [snippets |-> snips, icons |-> icons, groups |-> groups]
        \* the first write sends the settings without a groups property
        w1     == IF noIcon
                  THEN <<[Stored(s1) EXCEPT !.groups = IF noGrp THEN None ELSE @]>>
                  ELSE <<>>
        w2     == IF noGrp THEN <<Stored(s1)>> ELSE <<>>
    IN  IF ~loadOk \/ ((noIcon \/ noGrp) /\ ~saveOk)
        THEN [settings |-> DEFAULT_SETTINGS, writes |-> <<>>, caught |-> TRUE]
        ELSE [settings |-> s1, writes |-> w1 \o w2, caught |-> FALSE]

-----------------------------------------------------------------------------
(* Inputs *)

KA == <<"a">>

K7 == <<"7">>

KBad == <<"a", " ">>

KBang == <<"a", "!">>

KEmpty == <<>>

X == <<"x">>

G == <<"G">>

\* what the user types into the key and text fields of the add form
AddInputs ==
    {<<KA, X>>, <<K7, X>>, <<Hello, X>>, <<KBad, X>>, <<KA, <<>>>>,
     <<Constructor, X>>, <<UndefinedKey, X>>, <<KBang, X>>, <<KEmpty, X>>}

\* what the user types into the key field of the edit modal
KeyInputs == {KA, K7, Hello, KBad, UndefinedKey}

\* what the user types into the text field of the edit modal
TextInputs == {X, <<>>}

\* what the user types into the icon field of the edit modal
IconInputs == {Hand, <<>>}

\* what the user types into the group field of the edit modal
GroupInputs == {G}

\* what data.json holds when the plugin starts
DiskInputs ==
    {NoData,
     [snippets |-> Some(<<<<KA, X>>>>), icons |-> None, groups |-> None]}

-----------------------------------------------------------------------------
(* Template engine *)

\* the length of the match of /\{\d+\}/ that starts at position i of text, 0 if none
RECURSIVE DigitRun(_, _)
DigitRun(text, i) ==
    IF i <= Len(text) /\ text[i] \in Digits THEN 1 + DigitRun(text, i + 1) ELSE 0

MatchAt(text, i) ==
    IF i <= Len(text) /\ text[i] = "{"
    THEN LET d == DigitRun(text, i + 1)
         IN  IF d > 0 /\ i + d + 1 <= Len(text) /\ text[i + d + 1] = "}" THEN d + 2 ELSE 0
    ELSE 0

\* SnippetProcessor.hasPlaceholders; the text undefined is tested as "undefined"
hasPlaceholders(text) ==
    text # Undefined /\ \E i \in 1..Len(text) : MatchAt(text, i) > 0

\* text.match(/\{\d+\}/g) from position i on
RECURSIVE MatchesFrom(_, _)
MatchesFrom(text, i) ==
    IF i > Len(text) THEN <<>>
    ELSE IF MatchAt(text, i) > 0
    THEN <<SubSeq(text, i, i + MatchAt(text, i) - 1)>>
         \o MatchesFrom(text, i + MatchAt(text, i))
    ELSE MatchesFrom(text, i + 1)

\* [...new Set(matches)]: the first occurrence of each match, in order
RECURSIVE Distinct(_, _)
Distinct(seen, matches) ==
    IF matches = <<>> THEN seen
    ELSE IF \E i \in 1..Len(seen) : seen[i] = matches[1]
    THEN Distinct(seen, Tail(matches))
    ELSE Distinct(Append(seen, matches[1]), Tail(matches))

\* SnippetProcessor.extractPlaceholders
extractPlaceholders(text) == Distinct(<<>>, MatchesFrom(text, 1))

\* parseInt(placeholder.replace(/[{}]/g, ''), 10)
ParamNum(placeholder) == NumVal(SubSeq(placeholder, 2, Len(placeholder) - 1))

DigitChar(d) ==
    CASE d = 0 -> "0" [] d = 1 -> "1" [] d = 2 -> "2" [] d = 3 -> "3"
      [] d = 4 -> "4" [] d = 5 -> "5" [] d = 6 -> "6" [] d = 7 -> "7"
      [] d = 8 -> "8" [] d = 9 -> "9"

\* the decimal string of a number ('' + paramNum)
RECURSIVE NumStr(_)
NumStr(n) ==
    IF n < 10 THEN <<DigitChar(n)>> ELSE NumStr(n \div 10) \o <<DigitChar(n % 10)>>

\* selectedText.split('\n')
RECURSIVE Split(_, _)
Split(text, cur) ==
    IF text = <<>> THEN <<cur>>
    ELSE IF text[1] = "\n" THEN <<cur>> \o Split(Tail(text), <<>>)
    ELSE Split(Tail(text), Append(cur, text[1]))

\* .map(line => line.trim()).filter(line => line.length > 0)
RECURSIVE TrimmedNonEmpty(_)
TrimmedNonEmpty(ls) ==
    IF ls = <<>> THEN <<>>
    ELSE IF Trim(ls[1]) = <<>> THEN TrimmedNonEmpty(Tail(ls))
    ELSE <<Trim(ls[1])>> \o TrimmedNonEmpty(Tail(ls))

Lines(selectedText) == TrimmedNonEmpty(Split(selectedText, <<>>))

\* lines.slice(1).join(' ')
RECURSIVE Join(_)
Join(ls) ==
    IF ls = <<>> THEN <<>>
    ELSE IF Len(ls) = 1 THEN ls[1]
    ELSE ls[1] \o <<" ">> \o Join(Tail(ls))

\* Replacement that takes the last line for an index past the last line
ReplacementClamped(paramNum, lines) ==
    IF paramNum = 1 THEN (IF Len(lines) > 0 THEN lines[1] ELSE <<>>)
    ELSE IF paramNum > 1 /\ paramNum <= Len(lines) THEN lines[paramNum]
    ELSE IF paramNum = 2 /\ Len(lines) > 1 THEN Join(Tail(lines))
    ELSE IF paramNum > 1 /\ Len(lines) > 0 THEN lines[Len(lines)]
    ELSE <<>>

\* the replacement processTemplate computes for one placeholder
Replacement(paramNum, lines) ==
    IF paramNum = 1 THEN (IF Len(lines) > 0 THEN lines[1] ELSE <<>>)
    ELSE IF paramNum > 1 /\ paramNum <= Len(lines) THEN lines[paramNum]
    ELSE IF paramNum = 2 /\ Len(lines) > 1 THEN Join(Tail(lines))
    ELSE <<>>

\* the character U+0027
Apostrophe == "'"

\* the character U+0060, written by its name
GraveAccent == "grave"

\* String.prototype.replace expands the patterns $$, $&, $ with a grave accent and $ with
\* an apostrophe of the replacement
\* string (the regular expression has no capture group, so $1..$99 stay as they are)
RECURSIVE Expand(_, _, _, _)
Expand(r, matched, before, after) ==
    IF r = <<>> THEN <<>>
    ELSE IF r[1] = "$" /\ Len(r) >= 2 /\ r[2] \in {"$", "&", GraveAccent, Apostrophe}
    THEN (CASE r[2] = "$" -> <<"$">>
            [] r[2] = "&" -> matched
            [] r[2] = GraveAccent -> before
            [] r[2] = Apostrophe -> after)
         \o Expand(SubSeq(r, 3, Len(r)), matched, before, after)
    ELSE <<r[1]>> \o Expand(Tail(r), matched, before, after)

\* text.replace(new RegExp('\\{' + paramNum + '\\}', 'g'), replacement) from position i on
RECURSIVE ReplaceFrom(_, _, _, _)
ReplaceFrom(text, i, pattern, replacement) ==
    IF i > Len(text) THEN <<>>
    ELSE IF i + Len(pattern) - 1 <= Len(text)
            /\ SubSeq(text, i, i + Len(pattern) - 1) = pattern
    THEN Expand(replacement, pattern, SubSeq(text, 1, i - 1),
                SubSeq(text, i + Len(pattern), Len(text)))
         \o ReplaceFrom(text, i + Len(pattern), pattern, replacement)
    ELSE <<text[i]>> \o ReplaceFrom(text, i + 1, pattern, replacement)

\* placeholders.forEach(...) of processTemplate: one replace per placeholder, each on
\* the text the previous one produced
RECURSIVE ForEachPlaceholder(_, _, _)
ForEachPlaceholder(processedText, placeholders, lines) ==
    IF placeholders = <<>> THEN processedText
    ELSE LET paramNum == ParamNum(placeholders[1])
             pattern  == <<"{">> \o NumStr(paramNum) \o <<"}">>
         IN  ForEachPlaceholder(
                 ReplaceFrom(processedText, 1, pattern, Replacement(paramNum, lines)),
                 Tail(placeholders), lines)

\* processTemplate without its early return
processTemplateUnguarded(snippetText, selectedText) ==
    ForEachPlaceholder(snippetText, extractPlaceholders(snippetText), Lines(selectedText))

\* SnippetProcessor.processTemplate
processTemplate(snippetText, selectedText) ==
    IF ~Truthy(selectedText) \/ ~hasPlaceholders(snippetText) THEN snippetText
    ELSE ForEachPlaceholder(snippetText, extractPlaceholders(snippetText),
                            Lines(selectedText))

-----------------------------------------------------------------------------
(* The plugin *)

\* renderSnippetSetting throws a TypeError (snippetValue.length) for a key whose text
\* is undefined
RenderThrows(snippets) == \E i \in 1..Len(snippets) : snippets[i][2] = Undefined

\* filterAndDisplaySnippets with an empty search term: the keys of the rows it renders,
\* one per key in order, up to the first key renderSnippetSetting throws for
RECURSIVE filterAndDisplaySnippets(_)
filterAndDisplaySnippets(snippets) ==
    IF snippets = <<>> \/ snippets[1][2] = Undefined THEN <<>>
    ELSE <<snippets[1][1]>> \o filterAndDisplaySnippets(Tail(snippets))

UpperCase ==
    <<"A", "B", "C", "D", "E", "F", "G", "H", "I", "J", "K", "L", "M", "N", "O", "P", "Q",
      "R", "S", "T", "U", "V", "W", "X", "Y", "Z">>

LowerCase ==
    <<"a", "b", "c", "d", "e", "f", "g", "h", "i", "j", "k", "l", "m", "n", "o", "p", "q",
      "r", "s", "t", "u", "v", "w", "x", "y", "z">>

\* String.prototype.toLowerCase
toLowerCase(str) ==
    [i \in 1..Len(str) |->
        IF \E j \in 1..26 : UpperCase[j] = str[i]
        THEN LowerCase[CHOOSE j \in 1..26 : UpperCase[j] = str[i]]
        ELSE str[i]]

\* String.prototype.includes
includes(str, term) ==
    \E i \in 0..(Len(str) - Len(term)) : SubSeq(str, i + 1, i + Len(term)) = term

\* the test of keys.filter in filterAndDisplaySnippets
Matches(snippets, key, term) ==
    \/ includes(toLowerCase(key), term)
    \/ includes(toLowerCase(Get(snippets, key)), term)

\* the test of keys.filter throws: the key does not match and its text is undefined
MatchThrows(snippets, key, term) ==
    ~includes(toLowerCase(key), term) /\ Get(snippets, key) = Undefined

\* filterAndDisplaySnippets with a search term: the keys of the rows it renders; none
\* when the filter throws, else the matching keys up to the first key
\* renderSnippetSetting throws for
filterAndDisplaySnippetsTerm(snippets, term) ==
    IF term = <<>> THEN filterAndDisplaySnippets(snippets)
    ELSE IF \E i \in 1..Len(snippets) : MatchThrows(snippets, snippets[i][1], term)
    THEN <<>>
    ELSE filterAndDisplaySnippets(
             SelectSeq(snippets, LAMBDA p : Matches(snippets, p[1], term)))

Unset == [snippets |-> <<>>, icons |-> <<>>, groups |-> <<>>]

NoOp ==
    [op |-> "none", key |-> <<>>, orig |-> <<>>, value |-> <<>>, icon |-> <<>>,
     group |-> <<>>, result |-> "", from |-> 0, to |-> 0]

RepoInit ==
    /\ phase = "init"
    /\ settings = Unset
    /\ disk \in DiskInputs
    /\ inflight = {}
    /\ registered = {}
    /\ rows = <<>>
    /\ listening = FALSE
    /\ modal = <<>>
    /\ notices = 0
    /\ last = NoOp
    /\ nOps = 0
    /\ nIssued = 0
    /\ nSettled = 0
    /\ nFailed = 0
    /\ nResync = 0

\* InsertivePlugin.onload: loadSettings, the settings tab, registerSnippetCommands
OnLoad(loadOk, saveOk) ==
    /\ phase = "init"
    /\ LET r == loadSettings(disk, loadOk, saveOk)
       IN  /\ settings' = r.settings
           /\ disk' = IF r.writes = <<>> THEN disk ELSE r.writes[Len(r.writes)]
           /\ registered' = KeySet(r.settings.snippets)
           /\ rows' = filterAndDisplaySnippets(r.settings.snippets)
           /\ listening' = ~RenderThrows(r.settings.snippets)
           /\ last' = [NoOp EXCEPT !.op = "load",
                                   !.result = IF r.caught THEN "caught" ELSE "ok"]
    /\ phase' = "loaded"
    /\ UNCHANGED <<inflight, modal, notices, nOps, nIssued, nSettled, nFailed, nResync>>
    /\ UNCHANGED <<tplVars, valVars, menu>>

\* a handler may run: the plugin is loaded and no modal covers the settings tab
Idle == phase = "loaded" /\ modal = <<>> /\ nOps < MaxOps

\* InsertivePlugin.saveSettings up to its await: saveData(this.settings) is called
Save(s) ==
    /\ settings' = s
    /\ nOps' = nOps + 1
    /\ nIssued' = nIssued + 1
    /\ inflight' = inflight \cup {[id |-> nIssued + 1, data |-> Stored(s)]}
    /\ UNCHANGED <<phase, disk, registered, rows, listening, notices, nSettled, nFailed,
                   nResync>>
    /\ UNCHANGED <<tplVars, valVars, menu>>

\* a handler returns after a notice, before it touched the settings
Abort ==
    /\ nOps' = nOps + 1
    /\ UNCHANGED <<phase, settings, disk, inflight, registered, rows, listening, notices,
                   nIssued, nSettled, nFailed, nResync>>
    /\ UNCHANGED <<tplVars, valVars, menu>>

\* InsertiveSettingTab.handleAddSnippet with the form holding key and value
HandleAddSnippet(key, value) ==
    /\ Idle
    /\ LET result == handleAddSnippetCheck(settings, key, value)
       IN  /\ last' = [NoOp EXCEPT !.op = "add", !.key = key, !.value = value,
                                   !.result = result]
           /\ IF result = "ok"
              THEN Save(addNewSnippet(settings, key, value)) /\ modal' = modal
              ELSE IF result = "confirm"
              THEN Abort /\ modal' = <<[key |-> key, value |-> value]>>
              ELSE Abort /\ modal' = modal

\* the Replace button of the ConfirmModal: replaceSnippet
ConfirmReplace ==
    /\ phase = "loaded"
    /\ nOps < MaxOps
    /\ modal # <<>>
    /\ last' = [NoOp EXCEPT !.op = "replace", !.key = modal[1].key,
                            !.value = modal[1].value, !.result = "ok"]
    /\ Save(replaceSnippet(settings, modal[1].key, modal[1].value))
    /\ modal' = <<>>

\* the Cancel button of the ConfirmModal
ConfirmCancel ==
    /\ phase = "loaded"
    /\ nOps < MaxOps
    /\ modal # <<>>
    /\ modal' = <<>>
    /\ last' = [NoOp EXCEPT !.op = "cancel", !.key = modal[1].key]
    /\ Abort

\* the Edit button of a row, the fields of the EditSnippetModal filled in, then
\* EditSnippetModal.handleSave; the modal covers the settings tab in between
HandleSave(originalKey, key, value, icon, group) ==
    /\ Idle
    /\ \E i \in 1..Len(rows) : rows[i] = originalKey
    /\ LET result == handleSaveCheck(settings, originalKey, key, value)
       IN  /\ last' = [NoOp EXCEPT !.op = "update", !.key = key, !.orig = originalKey,
                                   !.value = value, !.icon = icon, !.group = group,
                                   !.result = result]
           /\ IF result = "ok"
              THEN Save(handleSave(settings, originalKey, key, value, icon, group))
              ELSE Abort
    /\ modal' = modal

\* the fields of an EditSnippetModal as its constructor sets them; the text field
\* starts with the record's text (with X for a row whose record is gone)
EditForm(originalKey) ==
    [key   |-> originalKey,
     value |-> IF Has(settings.snippets, originalKey)
               THEN Get(settings.snippets, originalKey) ELSE X,
     icon  |-> IF Truthy(Get(settings.icons, originalKey))
               THEN Get(settings.icons, originalKey) ELSE DEFAULT_ICON,
     group |-> IF Truthy(Get(settings.groups, originalKey))
               THEN Get(settings.groups, originalKey) ELSE <<>>]

\* the fields when Save is clicked: the user changed nothing, one field, or all four;
\* the onChange of the icon field stores value || DEFAULT_ICON
EditForms(originalKey) ==
    LET f == EditForm(originalKey)
    IN  {f}
        \cup {[f EXCEPT !.key = k] : k \in KeyInputs}
        \cup {[f EXCEPT !.value = v] : v \in TextInputs}
        \cup {[f EXCEPT !.icon = IF Truthy(v) THEN v ELSE DEFAULT_ICON] : v \in IconInputs}
        \cup {[f EXCEPT !.group = v] : v \in GroupInputs}
        \cup {[key |-> KA, value |-> X, icon |-> Hand, group |-> G]}

\* the Delete button of a row: handleDeleteSnippet
HandleDeleteSnippet(key) ==
    /\ Idle
    /\ \E i \in 1..Len(rows) : rows[i] = key
    /\ last' = [NoOp EXCEPT !.op = "delete", !.key = key,
                            !.result = IF Has(settings.snippets, key) THEN "ok" ELSE "absent"]
    /\ Save(handleDeleteSnippet(settings, key))
    /\ modal' = modal

\* the drop handler of enableDragToReorder: the row at fromIndex dropped on the row at toIndex
Drop(fromIndex, toIndex) ==
    /\ Idle
    /\ listening
    /\ fromIndex \in 0..(Len(rows) - 1)
    /\ toIndex \in 0..(Len(rows) - 1)
    /\ last' = [NoOp EXCEPT !.op = "reorder",
                            !.result = IF fromIndex = toIndex THEN "same" ELSE "ok",
                            !.from = fromIndex, !.to = toIndex]
    /\ IF fromIndex = toIndex
       THEN Abort
       ELSE Save(reorder(settings, fromIndex, toIndex))
    /\ modal' = modal

\* what the user types into the search field of the settings tab
SearchTerms == {<<"n">>, <<>>}

\* the onChange of the search field: the list is rendered again for the term, in the
\* container that has the listeners of enableDragToReorder
Search(term) ==
    /\ Idle
    /\ rows' = filterAndDisplaySnippetsTerm(settings.snippets, term)
    /\ last' = [NoOp EXCEPT !.op = "search", !.value = term]
    /\ nOps' = nOps + 1
    /\ UNCHANGED <<phase, settings, disk, inflight, registered, listening, modal, notices,
                   nIssued, nSettled, nFailed, nResync>>
    /\ UNCHANGED <<tplVars, valVars, menu>>

\* what the editor holds selected when a command runs
CommandSelections == {<<"a">>, <<>>}

\* the editorCallback of the command registered for snippetKey, run from the command
\* palette or a hotkey; out records what it hands to editor.replaceSelection
EditorCallback(snippetKey, selectedText) ==
    /\ Idle
    /\ snippetKey \in registered
    /\ LET snippetText == Get(settings.snippets, snippetKey)
       IN  /\ tpl' = snippetText
           /\ sel' = selectedText
           /\ out' = <<processTemplate(snippetText, selectedText)>>
    /\ last' = [NoOp EXCEPT !.op = "command", !.key = snippetKey,
                            !.result = IF Has(settings.snippets, snippetKey)
                                       THEN "ok" ELSE "absent"]
    /\ nOps' = nOps + 1
    /\ UNCHANGED <<phase, settings, disk, inflight, registered, rows, listening, modal,
                   notices, nIssued, nSettled, nFailed, nResync>>
    /\ UNCHANGED <<valVars, menu>>

\* saveData resolved: the rest of saveSettings and of the handler that awaited it
SaveResolved(w) ==
    /\ phase = "loaded"
    /\ w \in inflight
    /\ inflight' = inflight \ {w}
    /\ disk' = w.data
    /\ registered' = KeySet(settings.snippets)
    /\ nResync' = nResync + 1
    /\ nSettled' = nSettled + 1
    /\ rows' = filterAndDisplaySnippets(settings.snippets)
    /\ listening' = ~RenderThrows(settings.snippets)
    /\ UNCHANGED <<phase, settings, modal, notices, last, nOps, nIssued, nFailed>>
    /\ UNCHANGED <<tplVars, valVars, menu>>

\* what JSON.parse gives for the content of the store
Parsed(data) ==
    [f \in Fields |-> IF data[f] # None THEN data[f][1] ELSE DEFAULT_SETTINGS[f]]

\* SaveRejected with a rollback: the catch puts the stored settings back
SaveRejectedRollback(w) ==
    /\ phase = "loaded"
    /\ w \in inflight
    /\ inflight' = inflight \ {w}
    /\ notices' = notices + 1
    /\ nFailed' = nFailed + 1
    /\ nSettled' = nSettled + 1
    /\ settings' = Parsed(disk)
    /\ rows' = filterAndDisplaySnippets(settings'.snippets)
    /\ listening' = ~RenderThrows(settings'.snippets)
    /\ UNCHANGED <<phase, disk, registered, modal, last, nOps, nIssued, nResync>>
    /\ UNCHANGED <<tplVars, valVars, menu>>

\* saveData rejected: the catch of saveSettings and the rest of the handler
SaveRejected(w) ==
    /\ phase = "loaded"
    /\ w \in inflight
    /\ inflight' = inflight \ {w}
    /\ notices' = notices + 1
    /\ nFailed' = nFailed + 1
    /\ nSettled' = nSettled + 1
    /\ rows' = filterAndDisplaySnippets(settings.snippets)
    /\ listening' = ~RenderThrows(settings.snippets)
    /\ UNCHANGED <<phase, settings, disk, registered, modal, last, nOps, nIssued, nResync>>
    /\ UNCHANGED <<tplVars, valVars, menu>>

Add == \E form \in AddInputs : HandleAddSnippet(form[1], form[2])

Edit ==
    \E i \in 1..Len(rows) :
        \E f \in EditForms(rows[i]) : HandleSave(rows[i], f.key, f.value, f.icon, f.group)

Delete == \E i \in 1..Len(rows) : HandleDeleteSnippet(rows[i])

Reorder == \E fromIndex, toIndex \in 0..(Len(rows) - 1) : Drop(fromIndex, toIndex)

Filter == \E term \in SearchTerms : Search(term)

Command ==
    \E snippetKey \in registered :
        \E selectedText \in CommandSelections : EditorCallback(snippetKey, selectedText)

Load == \E loadOk, saveOk \in BOOLEAN : OnLoad(loadOk, saveOk)

Resolve == \E w \in inflight : SaveResolved(w)

Reject == \E w \in inflight : SaveRejected(w)

TplIdle == tpl = <<>> /\ sel = <<>> /\ out = <<>>

ValIdle == candidate = <<>> /\ verdict = "none"

MenuIdle == menu = <<>>

Init == RepoInit /\ TplIdle /\ ValIdle /\ MenuIdle

Next ==
    \/ Load
    \/ Add
    \/ ConfirmReplace
    \/ ConfirmCancel
    \/ Edit
    \/ Delete
    \/ Reorder
    \/ Filter
    \/ Command
    \/ Resolve
    \/ Reject

Spec == Init /\ [][Next]_vars

\* the plugin started without a data.json: the settings are the default settings
InitDefaults == Init /\ disk = NoData

SpecDefaults == InitDefaults /\ [][Next]_vars

-----------------------------------------------------------------------------
(* The template engine applied to bounded inputs *)

\* pieces a template is put together from
MaxPieces == 2

\* characters of a selection
MaxSelLen == 5

TplPieces ==
    {<<"{", "1", "}">>, <<"{", "2", "}">>, <<"{", "3", "}">>, <<"{", "0", "}">>,
     <<">">>, <<"\n">>, <<"{">>}

SelChars == {"a", " ", "\n"}

RECURSIVE Concats(_, _)
Concats(pieces, n) ==
    IF n = 0 THEN {<<>>}
    ELSE LET shorter == Concats(pieces, n - 1)
         IN  shorter \cup {s \o p : s \in shorter, p \in pieces}

\* "> {1}\n> {2}"
QuoteTemplate == <<">", " ", "{", "1", "}", "\n", ">", " ", "{", "2", "}">>

\* "Hello\nworld\ntest"
HelloWorldTest ==
    <<"H", "e", "l", "l", "o", "\n", "w", "o", "r", "l", "d", "\n", "t", "e", "s", "t">>

\* "> Hello\n> world test"
QuoteResult ==
    <<">", " ", "H", "e", "l", "l", "o", "\n", ">", " ", "w", "o", "r", "l", "d", " ",
      "t", "e", "s", "t">>

\* "Hello, {1}!"
HelloTemplate == <<"H", "e", "l", "l", "o", ",", " ", "{", "1", "}", "!">>

\* "- {1}\n- {2}"
ListTemplate == <<"-", " ", "{", "1", "}", "\n", "-", " ", "{", "2", "}">>

\* "John Doe"
JohnDoe == <<"J", "o", "h", "n", " ", "D", "o", "e">>

\* "one\ntwo"
OneTwo == <<"o", "n", "e", "\n", "t", "w", "o">>

\* "{2}\nb": a selection whose first line is the text of a placeholder
BraceSelection == <<"{", "2", "}", "\n", "b">>

\* "{01}": a placeholder written with a leading zero
LeadingZero == <<"{", "0", "1", "}">>

TemplateInputs ==
    Concats(TplPieces, MaxPieces)
        \cup {QuoteTemplate, GreetText, HelloTemplate, ListTemplate, LeadingZero}

\* selections that hold a replacement pattern of String.prototype.replace
DollarAmp == <<"$", "&">>

DollarDollar == <<"$", "$">>

DollarQuote == <<"$", Apostrophe>>

\* "$1": no pattern of String.prototype.replace, the regular expression has no group
DollarOne == <<"$", "1">>

\* the selections processTemplate is called with, and the value undefined
SelectionInputs ==
    Concats({<<c>> : c \in SelChars}, MaxSelLen)
        \cup {HelloWorldTest, JohnDoe, OneTwo, BraceSelection, Undefined}
        \cup {DollarAmp, DollarDollar, DollarQuote, DollarOne}

RepoIdle ==
    /\ phase = "init"
    /\ settings = Unset
    /\ disk = NoData
    /\ inflight = {}
    /\ registered = {}
    /\ rows = <<>>
    /\ listening = FALSE
    /\ modal = <<>>
    /\ notices = 0
    /\ last = NoOp
    /\ nOps = 0
    /\ nIssued = 0
    /\ nSettled = 0
    /\ nFailed = 0
    /\ nResync = 0

TplInit ==
    /\ RepoIdle
    /\ tpl \in TemplateInputs
    /\ sel \in SelectionInputs
    /\ out = <<>>
    /\ ValIdle
    /\ MenuIdle

\* a snippet command or menu item runs processTemplate on the selection
ProcessTemplate ==
    /\ out = <<>>
    /\ out' = <<processTemplate(tpl, sel)>>
    /\ UNCHANGED <<tpl, sel>>
    /\ UNCHANGED <<repoVars, valVars, menu>>

TplNext == ProcessTemplate

SpecTpl == TplInit /\ [][TplNext]_vars


-----------------------------------------------------------------------------
(* Claims *)

Loaded == phase = "loaded"

\* the step is a handler that changed the settings and called saveSettings
Mutation == nIssued' = nIssued + 1

\* the write the last mutation handed to saveData
LastWrite == {w \in inflight : w.id = nIssued}

\* C1: after any sequence of add, confirmed replace, update, delete and reorder from the
\* default settings, the snippets, icons and groups maps have the same key set
C1_SameKeySets ==
    Loaded => /\ KeySet(settings.icons) = KeySet(settings.snippets)
              /\ KeySet(settings.groups) = KeySet(settings.snippets)

\* C2: after delete(k) of a present key k, the settings in memory and the state handed to
\* the persistence write hold no text, no icon entry and no group entry for k
C2_DeleteLeavesNothing ==
    (Loaded /\ last.op = "delete" /\ last.result = "ok") =>
        /\ \A f \in Fields : ~Has(settings[f], last.key)
        /\ \A w \in LastWrite : \A f \in Fields : ~Has(w.data[f][1], last.key)

P2 == <<"{", "2", "}">>

\* C3: with more than one non-empty trimmed line selected, {2} is replaced by the lines
\* 2..n joined by single spaces; "> {1}\n> {2}" on "Hello\nworld\ntest" gives
\* "> Hello\n> world test"
C3_GroupedTail ==
    out # <<>> =>
        /\ (tpl = P2 /\ Len(Lines(sel)) > 1) => out[1] = Join(Tail(Lines(sel)))
        /\ (tpl = QuoteTemplate /\ sel = HelloWorldTest) => out[1] = QuoteResult

\* the step is a successful update that keeps the key of a present record
KeepKeyUpdate ==
    /\ Mutation
    /\ last'.op = "update"
    /\ last'.orig = last'.key
    /\ Has(settings.snippets, last'.key)

\* the entries of an object other than the one of key k, in order
Others(o, k) == Del(o, k)

\* C4: an update that keeps the key changes only that record's text, icon and group; the
\* ordered key sequence of the repository is the same before and after
C4_EditKeepsPosition ==
    [][KeepKeyUpdate =>
          /\ Keys(settings'.snippets) = Keys(settings.snippets)
          /\ \A f \in Fields : Others(settings'[f], last'.key) = Others(settings[f], last'.key)
      ]_vars

\* the step is a successful add
AddStep == Mutation /\ last'.op = "add"

\* C5: after a successful add(k, v), k is the last key of the repository order and the
\* order of the keys present before is unchanged, for every key the validator accepts
C5_AddAppends ==
    [][AddStep => Keys(settings'.snippets) = Append(Keys(settings.snippets), last'.key)]_vars

\* the step is a load that found a snippets map but no icons map or no groups map
MigratingLoad ==
    /\ phase = "init"
    /\ phase' = "loaded"
    /\ last'.result = "ok"
    /\ disk.snippets # None
    /\ (disk.icons = None \/ disk.groups = None)

\* C6: such a load gives every key of the snippets map the default icon (the empty
\* group), leaves no icon or group entry for another key, and writes the result to the store
C6_BackfillOnLoad ==
    [][MigratingLoad =>
          /\ disk.icons = None =>
                /\ KeySet(settings'.icons) = KeySet(settings'.snippets)
                /\ \A k \in KeySet(settings'.snippets) :
                       Get(settings'.icons, k) = DEFAULT_ICON
          /\ disk.groups = None =>
                /\ KeySet(settings'.groups) = KeySet(settings'.snippets)
                /\ \A k \in KeySet(settings'.snippets) : Get(settings'.groups, k) = <<>>
          /\ disk' = Stored(settings')
      ]_vars

\* C7: at most one saveData call is in flight in every reachable state
C7_OneWriteInFlight == Cardinality(inflight) <= 1

\* C8: once every issued write has resolved successfully, the durable state equals the
\* state in memory, in whatever order the store completed the writes
C8_NoLostWrite ==
    (Loaded /\ nIssued > 0 /\ inflight = {} /\ nFailed = 0) => disk = Stored(settings)

\* C9: every successful mutation is followed by one write of the full state that includes
\* the mutation and, once that write has settled, by a resynchronization of the commands
C9_WriteAndResync ==
    Loaded =>
        /\ \A w \in LastWrite : w.data = Stored(settings)
        /\ nResync = nSettled
        /\ inflight = {} => registered = KeySet(settings.snippets)

\* the step is the rejection of a write
WriteFailed == nFailed' = nFailed + 1

\* C10: when the write of a mutation fails, a failure notice is raised, the settings in
\* memory keep the mutation, and no write is issued again for it
C10_FailureSurfacedNoRollbackNoRetry ==
    [][WriteFailed =>
          /\ notices' = notices + 1
          /\ settings' = settings
          /\ nIssued' = nIssued
          /\ Cardinality(inflight') = Cardinality(inflight) - 1
          /\ inflight' \subseteq inflight
      ]_vars

\* a write failed, nothing is in flight, and memory holds a mutation the store never got
C10_Witness ==
    /\ Loaded
    /\ nFailed = 1
    /\ notices = 1
    /\ nIssued = 1
    /\ inflight = {}
    /\ last.result = "ok"
    /\ disk # Stored(settings)


\* the step is handleAddSnippet run with a key that is a key of the snippets map
AddOfPresentKey ==
    /\ nOps' = nOps + 1
    /\ last'.op = "add"
    /\ Has(settings.snippets, last'.key)

\* C11: add(k, v) for a key k already in the repository changes neither the settings nor
\* the order and issues no write; while the confirmation is open the settings change only
\* by the confirmed replace
C11_AddOfPresentKeyChangesNothing ==
    [][/\ AddOfPresentKey =>
              /\ settings' = settings
              /\ nIssued' = nIssued
              /\ inflight' = inflight
       /\ (modal # <<>> /\ settings' # settings) => last'.op = "replace"
      ]_vars


\* the step is handleAddSnippet run with a key the Key Validator rejects
AddOfInvalidKey ==
    /\ nOps' = nOps + 1
    /\ last'.op = "add"
    /\ validateKey(last'.key) # ""

\* C12: add(k, v) with a key the Key Validator rejects (empty, with a space, or with a
\* character outside [A-Za-z0-9_-]) leaves the settings as they are, issues no write,
\* opens no confirmation and does not re-register the commands
C12_InvalidKeyAddAborts ==
    [][AddOfInvalidKey =>
          /\ last'.result \in {"missing", "invalid"}
          /\ settings' = settings
          /\ nIssued' = nIssued
          /\ inflight' = inflight
          /\ disk' = disk
          /\ modal' = modal
          /\ registered' = registered
          /\ nResync' = nResync
      ]_vars

\* an add with the key "a!" was rejected after an earlier add had succeeded
C12_Witness ==
    /\ Loaded
    /\ last.op = "add"
    /\ last.key = KBang
    /\ last.result = "invalid"
    /\ nIssued = 1
    /\ Has(settings.snippets, KA)
    /\ ~Has(settings.snippets, KBang)


\* the step is handleAddSnippet run with a key the Key Validator accepts, a non-empty
\* text, and a key that is not a key of the snippets map
AddOfNewValidKey ==
    /\ nOps' = nOps + 1
    /\ last'.op = "add"
    /\ validateKey(last'.key) = ""
    /\ Truthy(last'.value)
    /\ ~Has(settings.snippets, last'.key)

\* C13: a successful add(k, v) leaves k with the text v, the icon 'stamp' and the empty
\* group, and every add of a valid key that is not in the repository succeeds
C13_AddSucceeds ==
    [][/\ AddStep =>
              /\ Get(settings'.snippets, last'.key) = last'.value
              /\ Get(settings'.icons, last'.key) = DEFAULT_ICON
              /\ Get(settings'.groups, last'.key) = <<>>
       /\ AddOfNewValidKey => (AddStep /\ last'.result = "ok")
      ]_vars


\* the step is handleSave run with a key that differs from the original key and that the
\* Key Validator rejects or that is a key of the snippets map
BadRename ==
    /\ nOps' = nOps + 1
    /\ last'.op = "update"
    /\ last'.key # last'.orig
    /\ (validateKey(last'.key) # "" \/ Has(settings.snippets, last'.key))

\* C14: an update whose new key differs from the original key and is invalid or already
\* present leaves the three maps and their order unchanged and issues no write
C14_BadRenameAborts ==
    [][BadRename =>
          /\ settings' = settings
          /\ nIssued' = nIssued
          /\ inflight' = inflight
      ]_vars


-----------------------------------------------------------------------------
(* The older build (src/unnamed/part_001): settings hold snippets and icons only *)

\* CONSTANTS.DEFAULT_SETTINGS of the older build; it has no groups map
OLD_DEFAULT_SETTINGS ==
    [snippets |-> DEFAULT_SETTINGS.snippets, icons |-> DEFAULT_SETTINGS.icons,
     groups |-> <<>>]

\* what saveData(settings) of the older build leaves in the store
StoredOld(s) ==
    [snippets |-> Some(JsonObj(s.snippets)), icons |-> Some(JsonObj(s.icons)),
     groups |-> None]

\* the outcome of the checks of EditSnippetModal.handleSave of the older build
handleSaveCheckOld(originalKey, key, value) ==
    IF ~Truthy(key) \/ ~Truthy(value) THEN "missing"
    ELSE IF key # originalKey /\ validateKey(key) # "" THEN "invalid"
    ELSE "ok"

\* EditSnippetModal.handleSave of the older build after its checks, up to the save
handleSaveOld(s, originalKey, key, value, icon) ==
    LET renamed == key # originalKey
        snips   == IF renamed THEN Del(s.snippets, originalKey) ELSE s.snippets
        icons   == IF renamed /\ Truthy(Get(s.icons, originalKey))
                   THEN Del(s.icons, originalKey) ELSE s.icons
    IN  [snippets |-> Put(snips, key, value),
         icons    |-> Put(icons, key, icon),
         groups   |-> s.groups]

\* the older build loaded without a data.json and its settings tab is shown
InitOld ==
    /\ phase = "loaded"
    /\ settings = OLD_DEFAULT_SETTINGS
    /\ disk = NoData
    /\ inflight = {}
    /\ registered = KeySet(OLD_DEFAULT_SETTINGS.snippets)
    /\ rows = Keys(OLD_DEFAULT_SETTINGS.snippets)
    /\ listening = FALSE
    /\ modal = <<>>
    /\ notices = 0
    /\ last = [NoOp EXCEPT !.op = "load", !.result = "ok"]
    /\ nOps = 0
    /\ nIssued = 0
    /\ nSettled = 0
    /\ nFailed = 0
    /\ nResync = 0
    /\ TplIdle
    /\ ValIdle
    /\ MenuIdle

\* the Edit button of a row, the fields of the modal filled in, then handleSave of the
\* older build
HandleSaveOld(originalKey, key, value, icon) ==
    /\ Idle
    /\ \E i \in 1..Len(rows) : rows[i] = originalKey
    /\ LET result == handleSaveCheckOld(originalKey, key, value)
           s      == handleSaveOld(settings, originalKey, key, value, icon)
       IN  /\ last' = [NoOp EXCEPT !.op = "update", !.key = key, !.orig = originalKey,
                                   !.value = value, !.icon = icon, !.result = result]
           /\ IF result = "ok"
              THEN /\ settings' = s
                   /\ nIssued' = nIssued + 1
                   /\ inflight' = inflight \cup {[id |-> nIssued + 1, data |-> StoredOld(s)]}
              ELSE UNCHANGED <<settings, nIssued, inflight>>
    /\ nOps' = nOps + 1
    /\ UNCHANGED <<phase, disk, registered, rows, listening, modal, notices, nSettled,
                   nFailed, nResync>>
    /\ UNCHANGED <<tplVars, valVars, menu>>

\* saveData of the older build settled: the rest of saveSettings, then display()
SaveSettledOld(w, resolved) ==
    /\ w \in inflight
    /\ inflight' = inflight \ {w}
    /\ nSettled' = nSettled + 1
    /\ rows' = filterAndDisplaySnippets(settings.snippets)
    /\ IF resolved
       THEN /\ disk' = w.data
            /\ registered' = KeySet(settings.snippets)
            /\ nResync' = nResync + 1
            /\ UNCHANGED <<notices, nFailed>>
       ELSE /\ notices' = notices + 1
            /\ nFailed' = nFailed + 1
            /\ UNCHANGED <<disk, registered, nResync>>
    /\ UNCHANGED <<phase, settings, listening, modal, last, nOps, nIssued>>
    /\ UNCHANGED <<tplVars, valVars, menu>>

EditOld ==
    \E i \in 1..Len(rows) :
        \E f \in EditForms(rows[i]) : HandleSaveOld(rows[i], f.key, f.value, f.icon)

SettleOld == \E w \in inflight : \E resolved \in BOOLEAN : SaveSettledOld(w, resolved)

NextOld ==
    \/ EditOld
    \/ SettleOld

SpecOld == InitOld /\ [][NextOld]_vars

\* the step is handleSave run with a key that differs from the original key and is a key
\* of the snippets map
CollidingRename ==
    /\ nOps' = nOps + 1
    /\ last'.op = "update"
    /\ last'.key # last'.orig
    /\ Has(settings.snippets, last'.key)

\* C15: in the older build a save that renames a snippet to the key of another snippet is
\* aborted: the settings are unchanged (the other snippet keeps its text and icon, the
\* original key stays) and nothing is written
C15_OldRenameCollisionAborts ==
    [][CollidingRename =>
          /\ settings' = settings
          /\ nIssued' = nIssued
      ]_vars


\* the step is a successful update whose key differs from the original key
RenameStep ==
    /\ Mutation
    /\ last'.op = "update"
    /\ last'.key # last'.orig

\* C16: after a successful rename the original key is in none of the three maps, the new
\* key holds exactly the text, icon and group of the form, and every other key has the
\* entries it had
C16_RenameMovesRecord ==
    [][RenameStep =>
          /\ \A f \in Fields : ~Has(settings'[f], last'.orig)
          /\ Has(settings'.snippets, last'.key)
          /\ Get(settings'.snippets, last'.key) = last'.value
          /\ Has(settings'.icons, last'.key)
          /\ Get(settings'.icons, last'.key) = last'.icon
          /\ Has(settings'.groups, last'.key)
          /\ Get(settings'.groups, last'.key) = last'.group
          /\ \A f \in Fields :
                 \A k \in (KeySet(settings[f]) \cup KeySet(settings'[f]))
                              \ {last'.orig, last'.key} :
                     /\ Has(settings[f], k) /\ Has(settings'[f], k)
                     /\ Get(settings'[f], k) = Get(settings[f], k)
      ]_vars

\* "hello" was renamed to "a" with a new text, icon and group while "greet" is present
C16_Witness ==
    /\ Loaded
    /\ last.op = "update"
    /\ last.result = "ok"
    /\ last.orig = Hello
    /\ last.key = KA
    /\ ~Has(settings.snippets, Hello)
    /\ Get(settings.snippets, KA) = X
    /\ Get(settings.icons, KA) = Hand
    /\ Get(settings.groups, KA) = G
    /\ Has(settings.snippets, Greet)


\* the step is the drop handler run with both row indices inside the key list
ReorderInRange ==
    /\ nOps' = nOps + 1
    /\ last'.op = "reorder"
    /\ last'.from \in 0..(Len(settings.snippets) - 1)
    /\ last'.to \in 0..(Len(settings.snippets) - 1)

\* the list keys with the element at index from (0-based) taken out and put at index to
MovedTo(keys, from, to) ==
    LET rest == SubSeq(keys, 1, from) \o SubSeq(keys, from + 2, Len(keys))
    IN  SubSeq(rest, 1, to) \o <<keys[from + 1]>> \o SubSeq(rest, to + 1, Len(rest))

\* C17: a reorder with both indices in [0, size) puts the record of index fromIndex at
\* index toIndex and shifts the records in between by one slot ([a,b,c], 0 to 2, gives
\* [b,c,a]); with fromIndex = toIndex the order stays as it is
C17_ReorderMovesRecord ==
    [][ReorderInRange =>
          Keys(settings'.snippets) =
              MovedTo(Keys(settings.snippets), last'.from, last'.to)
      ]_vars


\* the step is the drop handler run with a row index that is not an index of the key list
ReorderOutOfRange ==
    /\ nOps' = nOps + 1
    /\ last'.op = "reorder"
    /\ \/ last'.from \notin 0..(Len(settings.snippets) - 1)
       \/ last'.to \notin 0..(Len(settings.snippets) - 1)

\* C18: a reorder with fromIndex or toIndex outside [0, size) leaves the order and all
\* attributes of the repository unchanged and issues no write
C18_OutOfRangeReorderFails ==
    [][ReorderOutOfRange =>
          /\ settings' = settings
          /\ nIssued' = nIssued
          /\ inflight' = inflight
      ]_vars


\* the step is the successful end of the write the last mutation issued
LastWriteResolved ==
    /\ nResync' = nResync + 1
    /\ \E w \in inflight \ inflight' : w.id = nIssued

\* C19: loading what a successful save has written gives the settings the memory held
\* when the save was issued: the same keys in the same order with the same text, icon
\* and group
C19_SaveLoadRoundTrip ==
    [][LastWriteResolved => loadSettings(disk', TRUE, TRUE).settings = settings]_vars


-----------------------------------------------------------------------------
(* The Key Validator applied to bounded inputs *)

\* characters of a candidate key
MaxKeyLen == 3

KeyAlphabet == {"a", "Z", "0", "_", "-", " ", "\t", "\n", "!", "."}

\* the strings validateKey is called with, and the value undefined
KeyCandidates == Concats({<<c>> : c \in KeyAlphabet}, MaxKeyLen) \cup {Undefined}

KeyInit ==
    /\ RepoIdle
    /\ TplIdle
    /\ candidate \in KeyCandidates
    /\ verdict = "none"
    /\ MenuIdle

\* a handler calls SnippetValidator.validateKey
ValidateKey ==
    /\ verdict = "none"
    /\ verdict' = validateKey(candidate)
    /\ UNCHANGED candidate
    /\ UNCHANGED <<repoVars, tplVars, menu>>

KeyNext == ValidateKey

SpecKey == KeyInit /\ [][KeyNext]_vars

\* the key is a non-empty string without whitespace made of characters of [A-Za-z0-9_-]
WellFormedKey(key) ==
    /\ key # Undefined
    /\ Len(key) > 0
    /\ \A i \in 1..Len(key) : key[i] \notin WhiteSpace
    /\ \A i \in 1..Len(key) : key[i] \in KeyChars

\* C20: validateKey reports a key as valid exactly when the key is non-empty, has no
\* whitespace and consists only of characters of [A-Za-z0-9_-]
C20_ValidIffWellFormed ==
    verdict # "none" => ((verdict = "") <=> WellFormedKey(candidate))

\* validateKey has accepted the key "Z_0"
C20_Witness ==
    /\ candidate = <<"Z", "_", "0">>
    /\ verdict = ""


\* the key has no character left after trimming
BlankKey(key) == \A i \in 1..Len(key) : key[i] \in WhiteSpace

\* C21: validateKey reports the first rule a key fails: a key that is empty after
\* trimming is reported as empty, otherwise a key with a space character as containing
\* spaces, otherwise a key with a character outside [A-Za-z0-9_-] as having invalid
\* characters
C21_FirstFailureReported ==
    (verdict # "none" /\ candidate # Undefined) =>
        /\ BlankKey(candidate) => verdict = "empty"
        /\ (~BlankKey(candidate) /\ \E i \in 1..Len(candidate) : candidate[i] = " ") =>
               verdict = "spaces"
        /\ (/\ ~BlankKey(candidate)
            /\ \A i \in 1..Len(candidate) : candidate[i] # " "
            /\ \E i \in 1..Len(candidate) : candidate[i] \notin KeyChars) =>
               verdict = "characters"

\* the key "! a", which has a space and a disallowed character, was reported for its space
C21_Witness ==
    /\ candidate = <<"!", " ", "a">>
    /\ verdict = "spaces"


\* the text has a token: an opening brace, one or more digits, a closing brace
HasToken(text) ==
    \E i, j \in 1..Len(text) :
        /\ j > i + 1
        /\ text[i] = "{"
        /\ text[j] = "}"
        /\ \A m \in (i + 1)..(j - 1) : text[m] \in Digits

\* C22: processTemplate returns the template unchanged when the selection is empty or
\* absent, and when the template has no token {digits}, whatever the selection is
C22_UnchangedWithoutSelectionOrToken ==
    (out # <<>> /\ (sel = Undefined \/ sel = <<>> \/ ~HasToken(tpl))) => out[1] = tpl

\* processTemplate has returned the template ">{" unchanged for the selection "a"
C22_Witness ==
    /\ out = <<tpl>>
    /\ tpl = <<">", "{">>
    /\ sel = <<"a">>


P1 == <<"{", "1", "}">>

P3 == <<"{", "3", "}">>

\* "Hello, John Doe!"
HelloJohnDoe ==
    <<"H", "e", "l", "l", "o", ",", " ", "J", "o", "h", "n", " ", "D", "o", "e", "!">>

\* "- one\n- two"
ListOneTwo == <<"-", " ", "o", "n", "e", "\n", "-", " ", "t", "w", "o">>

\* C23: with L the non-empty trimmed lines of the selection, {1} is replaced by L[1] when
\* there is a line, and {k} with 2 < k <= n by L[k]; "Hello, {1}!" on "John Doe" gives
\* "Hello, John Doe!" and "- {1}\n- {2}" on "one\ntwo" gives "- one\n- two"
C23_LineForPlaceholder ==
    (out # <<>> /\ Truthy(sel)) =>
        /\ (tpl = P1 /\ Len(Lines(sel)) >= 1) => out[1] = Lines(sel)[1]
        /\ (tpl = P3 /\ Len(Lines(sel)) >= 3) => out[1] = Lines(sel)[3]
        /\ (tpl = HelloTemplate /\ sel = JohnDoe) => out[1] = HelloJohnDoe
        /\ (tpl = ListTemplate /\ sel = OneTwo) => out[1] = ListOneTwo


\* the token is written {k} with k in decimal without leading zeros, and k is no index
\* of a list of n lines
OutOfRangeToken(token, n) ==
    /\ token = <<"{">> \o NumStr(ParamNum(token)) \o <<"}">>
    /\ (ParamNum(token) = 0 \/ ParamNum(token) > n)

\* the text from position i on with its tokens {digits} taken out
RECURSIVE WithoutTokens(_, _)
WithoutTokens(text, i) ==
    IF i > Len(text) THEN <<>>
    ELSE IF MatchAt(text, i) > 0 THEN WithoutTokens(text, i + MatchAt(text, i))
    ELSE <<text[i]>> \o WithoutTokens(text, i + 1)

\* every token of the template is out of range for the lines of the selection
OnlyOutOfRangeTokens ==
    /\ HasToken(tpl)
    /\ \A m \in 1..Len(MatchesFrom(tpl, 1)) :
           OutOfRangeToken(MatchesFrom(tpl, 1)[m], Len(Lines(sel)))

NoRepeats(seq) == \A i, j \in 1..Len(seq) : seq[i] = seq[j] => i = j

\* C25: every occurrence of {k} in the template gets the same replacement (a template
\* that is one token twice gives twice the result of the token alone);
\* extractPlaceholders lists each token of the template once; and the result is the same
\* when the list of placeholders holds a token as often as the template does
C25_EveryOccurrenceReplaced ==
    /\ NoRepeats(extractPlaceholders(tpl))
    /\ {extractPlaceholders(tpl)[m] : m \in 1..Len(extractPlaceholders(tpl))}
           = {MatchesFrom(tpl, 1)[m] : m \in 1..Len(MatchesFrom(tpl, 1))}
    /\ (out # <<>> /\ Truthy(sel)) =>
           /\ \A t \in {P1, P2, P3} :
                  tpl = t \o t => out[1] = processTemplate(t, sel) \o processTemplate(t, sel)
           /\ HasToken(tpl) =>
                  out[1] = ForEachPlaceholder(tpl, MatchesFrom(tpl, 1), Lines(sel))


\* the text from position i on with every token {k} replaced by the replacement of k, in
\* one pass from left to right that never looks at the text it has put in
RECURSIVE OnePass(_, _, _)
OnePass(text, i, lines) ==
    IF i > Len(text) THEN <<>>
    ELSE IF MatchAt(text, i) > 0
    THEN Replacement(ParamNum(SubSeq(text, i, i + MatchAt(text, i) - 1)), lines)
         \o OnePass(text, i + MatchAt(text, i), lines)
    ELSE <<text[i]>> \o OnePass(text, i + 1, lines)

\* C26: the substitution is one non-overlapping pass over the template: the text put in
\* for a placeholder is not scanned again, so a selected line that reads {2} comes out
\* as it is ("{1}{2}" on the lines "{2}" and "b" gives "{2}b"); stated for selections
\* without a "$", which String.prototype.replace reads as a pattern
C26_SinglePass ==
    (/\ out # <<>>
     /\ Truthy(sel)
     /\ HasToken(tpl)
     /\ \A i \in 1..Len(sel) : sel[i] # "$") => out[1] = OnePass(tpl, 1, Lines(sel))



\* every saveSettings call made so far has settled, by success or by failure
AllSavesSettled == inflight = {} /\ nSettled = nIssued

\* C29: whenever the plugin is loaded and every issued save has settled, the registered
\* commands are exactly the commands 'insert-snippet-' + k of the keys k of the repository
C29_CommandsMatchKeys ==
    (Loaded /\ AllSavesSettled) => registered = KeySet(settings.snippets)



-----------------------------------------------------------------------------
(* The context menu *)

\* the characters U+0020 .. U+007E in the order of their code units
Ascii ==
    <<" ", "!", "\"", "#", "$", "%", "&", Apostrophe, "(", ")", "*", "+", ",", "-",
      ".", "/", "0", "1", "2", "3", "4", "5", "6", "7", "8", "9", ":", ";", "<", "=",
      ">", "?", "@", "A", "B", "C", "D", "E", "F", "G", "H", "I", "J", "K", "L", "M",
      "N", "O", "P", "Q", "R", "S", "T", "U", "V", "W", "X", "Y", "Z", "[", "\\", "]",
      "^", "_", GraveAccent, "a", "b", "c", "d", "e", "f", "g", "h", "i", "j", "k",
      "l", "m", "n", "o", "p", "q", "r", "s", "t", "u", "v", "w", "x", "y", "z", "{",
      "|", "}", "~">>

\* the UTF-16 code unit of a character
CodeUnit(c) == 31 + (CHOOSE i \in 1..Len(Ascii) : Ascii[i] = c)

\* a < b for strings, as Array.prototype.sort compares them without a compare function
RECURSIVE Less(_, _)
Less(a, b) ==
    IF b = <<>> THEN FALSE
    ELSE IF a = <<>> THEN TRUE
    ELSE IF a[1] = b[1] THEN Less(Tail(a), Tail(b))
    ELSE CodeUnit(a[1]) < CodeUnit(b[1])

\* names.sort()
RECURSIVE Sort(_)
Sort(names) ==
    IF names = <<>> THEN <<>>
    ELSE LET rest  == Sort(Tail(names))
             below == SelectSeq(rest, LAMBDA n : ~Less(names[1], n))
             above == SelectSeq(rest, LAMBDA n : Less(names[1], n))
         IN  below \o <<names[1]>> \o above

\* String(Object): the property name the function inherited as "constructor" is
\* coerced to
FnSource ==
    <<"f", "u", "n", "c", "t", "i", "o", "n", " ", "O", "b", "j", "e", "c", "t", "(",
      ")", " ", "{", " ", "[", "n", "a", "t", "i", "v", "e", " ", "c", "o", "d", "e",
      "]", " ", "}">>

\* the property name a value is coerced to
PropertyName(v) == IF v = InheritedFn THEN FnSource ELSE v

\* value || ''
OrEmpty(v) == IF Truthy(v) THEN v ELSE <<>>

\* what organizeSnippetsByGroup gives when grouped[group].push throws: grouped[group] is
\* a function of Object.prototype
TypeError == <<<<"TypeError">>>>

\* ContextMenuManager.organizeSnippetsByGroup from the object grouped on
RECURSIVE OrganizeFrom(_, _, _)
OrganizeFrom(grouped, snippetKeys, groups) ==
    IF snippetKeys = <<>> THEN grouped
    ELSE LET key   == snippetKeys[1]
             group == PropertyName(OrEmpty(Get(groups, key)))
         IN  IF Has(grouped, group)
             THEN OrganizeFrom(Put(grouped, group, Append(Get(grouped, group), key)),
                               Tail(snippetKeys), groups)
             ELSE IF group \in ObjectPrototypeProps THEN TypeError
             ELSE OrganizeFrom(Put(grouped, group, <<key>>), Tail(snippetKeys), groups)

\* ContextMenuManager.organizeSnippetsByGroup
organizeSnippetsByGroup(snippetKeys, groups) == OrganizeFrom(<<>>, snippetKeys, groups)

Insertive == <<"I", "n", "s", "e", "r", "t", "i", "v", "e">>

\* "Manage Snippets..."
ManageSnippets ==
    <<"M", "a", "n", "a", "g", "e", " ", "S", "n", "i", "p", "p", "e", "t", "s", ".",
      ".", ".">>

\* an entry of a menu: its kind, title and icon, and the entries of its submenu
MenuItem(kind, title, icon, items) ==
    [kind |-> kind, title |-> title, icon |-> icon, items |-> items]

Separator == MenuItem("separator", <<>>, <<>>, <<>>)

\* ContextMenuManager.addSnippetMenuItem
addSnippetMenuItem(s, key) ==
    MenuItem("snippet", key,
             IF Truthy(Get(s.icons, key)) THEN Get(s.icons, key) ELSE DEFAULT_ICON, <<>>)

\* keys.forEach(key => this.addSnippetMenuItem(menu, key, editor))
SnippetItems(s, keys) == [i \in 1..Len(keys) |-> addSnippetMenuItem(s, keys[i])]

\* ContextMenuManager.addContextMenu: the entry it adds to the editor menu; when
\* organizeSnippetsByGroup throws, the entry is left without the items of its submenu
addContextMenu(s) ==
    LET snippetKeys == Keys(s.snippets)
        groupedSnippets == organizeSnippetsByGroup(snippetKeys, s.groups)
        names    == Keys(groupedSnippets)
        top      == IF Has(groupedSnippets, <<>>)
                    THEN SnippetItems(s, Get(groupedSnippets, <<>>))
                         \o (IF \E i \in 1..Len(names) : names[i] # <<>>
                             THEN <<Separator>> ELSE <<>>)
                    ELSE <<>>
        groups   == Sort(SelectSeq(names, LAMBDA g : g # <<>>))
        folders  == [i \in 1..Len(groups) |->
                        MenuItem("folder", groups[i], <<"folder">>,
                                 SnippetItems(s, Get(groupedSnippets, groups[i])))]
        manage   == MenuItem("manage", ManageSnippets, <<"settings">>, <<>>)
    IN  IF Len(snippetKeys) = 0
        THEN MenuItem("disabled", Insertive, <<"file-down">>, <<>>)
        ELSE IF groupedSnippets = TypeError
        THEN MenuItem("TypeError", Insertive, <<"text-cursor-input">>, <<>>)
        ELSE MenuItem("submenu", Insertive, <<"text-cursor-input">>,
                      top \o folders \o <<Separator, manage>>)

-----------------------------------------------------------------------------
(* The context menu opened on repositories loaded from data.json *)

\* keys of a repository
MaxMenuKeys == 3

KB == <<"b">>

GroupB == <<"B">>

MenuKeys == {KA, KB, K7, Constructor}

\* what the groups map holds for a key: the empty group, a group name, or (undefined)
\* no entry
MenuGroupChoices == {<<>>, G, GroupB, Constructor, Undefined}

\* the keys in the order they were added
MenuKeySeqs ==
    {ks \in UNION {[1..n -> MenuKeys] : n \in 0..MaxMenuKeys} :
        \A i, j \in 1..Len(ks) : ks[i] = ks[j] => i = j}

\* the settings after the first n keys of ks were added with the groups gs; a key
\* without a group entry has no icon entry either
RECURSIVE Repository(_, _, _)
Repository(ks, gs, n) ==
    IF n = 0 THEN Unset
    ELSE LET r == Repository(ks, gs, n - 1)
         IN  [snippets |-> Put(r.snippets, ks[n], X),
              icons    |-> IF gs[n] = Undefined THEN r.icons
                           ELSE Put(r.icons, ks[n], DEFAULT_ICON),
              groups   |-> IF gs[n] = Undefined THEN r.groups
                           ELSE Put(r.groups, ks[n], gs[n])]

\* what data.json holds when the plugin starts
MenuDisks ==
    UNION {{Stored(Repository(ks, gs, Len(ks))) : gs \in [1..Len(ks) -> MenuGroupChoices]} :
              ks \in MenuKeySeqs}

MenuInit ==
    /\ phase = "init"
    /\ settings = Unset
    /\ disk \in MenuDisks
    /\ inflight = {}
    /\ registered = {}
    /\ rows = <<>>
    /\ listening = FALSE
    /\ modal = <<>>
    /\ notices = 0
    /\ last = NoOp
    /\ nOps = 0
    /\ nIssued = 0
    /\ nSettled = 0
    /\ nFailed = 0
    /\ nResync = 0
    /\ TplIdle
    /\ ValIdle
    /\ MenuIdle

\* the 'editor-menu' event: the user opens the context menu of the editor
AddContextMenu ==
    /\ phase = "loaded"
    /\ menu = <<>>
    /\ menu' = <<addContextMenu(settings)>>
    /\ UNCHANGED <<repoVars, tplVars, valVars>>

MenuNext ==
    \/ Load
    \/ AddContextMenu

SpecMenu == MenuInit /\ [][MenuNext]_vars



\* the group of a key: the empty group when the groups map has no entry for the key
GroupNameOf(key) == IF Has(settings.groups, key) THEN Get(settings.groups, key) ELSE <<>>

\* the keys of the repository that have the group g, in the order of the repository
KeysOfGroup(g) == SelectSeq(Keys(settings.snippets), LAMBDA k : GroupNameOf(k) = g)

\* C27: organizeSnippetsByGroup partitions the keys: the bucket '' holds the keys with an
\* empty or missing group, there is one bucket for each non-empty group that has a key,
\* there is no other bucket, and each bucket keeps the order of the repository;
\* organize([a, b, c], {a: "", b: "G", c: ""}) gives '' -> [a, c] and G -> [b]
C27_OrganizePartitions ==
    (menu # <<>> /\ Len(settings.snippets) > 0) =>
        LET grouped == organizeSnippetsByGroup(Keys(settings.snippets), settings.groups)
        IN  /\ grouped # TypeError
            /\ \A k \in KeySet(settings.snippets) :
                   /\ Has(grouped, GroupNameOf(k))
                   /\ Get(grouped, GroupNameOf(k)) = KeysOfGroup(GroupNameOf(k))
            /\ \A i \in 1..Len(grouped) : KeysOfGroup(grouped[i][1]) # <<>>
            /\ organizeSnippetsByGroup(<<KA, KB, <<"c">>>>,
                                       <<<<KA, <<>>>>, <<KB, G>>, <<<<"c">>, <<>>>>>>)
                   = <<<<<<>>, <<KA, <<"c">>>>>>, <<G, <<KB>>>>>>



\* the non-empty groups that have a key
GroupNames == {GroupNameOf(k) : k \in KeySet(settings.snippets)} \ {<<>>}

\* the titles of the entries of a menu
Titles(items) == [i \in 1..Len(items) |-> items[i].title]

\* C28: the context menu of a repository with keys shows each key once: first the keys
\* without a group in the order of the repository, then one folder for each group, the
\* folders in sorted order of their names and each with its keys in the order of the
\* repository, then the entry that opens the settings; for an empty repository the menu
\* gets a single disabled entry
C28_MenuShowsEachKeyOnce ==
    menu # <<>> =>
        LET entries   == SelectSeq(menu[1].items, LAMBDA e : e.kind # "separator")
            ungrouped == KeysOfGroup(<<>>)
            nU        == Len(ungrouped)
            nF        == Cardinality(GroupNames)
        IN  IF settings.snippets = <<>>
            THEN menu[1].kind = "disabled" /\ menu[1].items = <<>>
            ELSE /\ menu[1].kind = "submenu"
                 /\ Len(entries) = nU + nF + 1
                 /\ \A i \in 1..nU :
                        entries[i].kind = "snippet" /\ entries[i].title = ungrouped[i]
                 /\ \A i \in (nU + 1)..(nU + nF) :
                        /\ entries[i].kind = "folder"
                        /\ entries[i].title \in GroupNames
                        /\ Titles(entries[i].items) = KeysOfGroup(entries[i].title)
                        /\ \A j \in (i + 1)..(nU + nF) :
                               Less(entries[i].title, entries[j].title)
                 /\ entries[nU + nF + 1].kind = "manage"


\* the step is the editorCallback of a registered command
CommandStep == nOps' = nOps + 1 /\ last'.op = "command"

\* C30: whenever a registered command for a key k is invoked, in any interleaving with
\* the handlers and the saves, k is a key of the repository and the selection is replaced
\* by processTemplate(text of k in the repository, selection)
C30_CommandFindsItsSnippet ==
    [][CommandStep =>
          /\ Has(settings.snippets, last'.key)
          /\ out' = <<processTemplate(Get(settings.snippets, last'.key), sel')>>
      ]_vars



\* the value is a string with at least one character
NonEmptyString(v) == v \notin {Undefined, InheritedFn, <<>>}

\* C31: after any sequence of add, replace, update, delete and reorder from the default
\* settings, every key of the repository has an icon entry that is a non-empty string
C31_IconNonEmpty ==
    Loaded => \A k \in KeySet(settings.snippets) :
                  Has(settings.icons, k) /\ NonEmptyString(Get(settings.icons, k))



\* the step is replaceSnippet run for a key that is a key of the snippets map
ReplaceOfPresentKey ==
    /\ Mutation
    /\ last'.op = "replace"
    /\ Has(settings.snippets, last'.key)

\* C32: replaceSnippet on a key k of the repository changes only the text of k: the order
\* of the keys, the icons and the groups are as before, every other key keeps its text,
\* and when the three maps had the same keys before they have the same keys after
C32_ReplaceChangesTextOnly ==
    [][ReplaceOfPresentKey =>
          /\ Keys(settings'.snippets) = Keys(settings.snippets)
          /\ Get(settings'.snippets, last'.key) = last'.value
          /\ Others(settings'.snippets, last'.key) = Others(settings.snippets, last'.key)
          /\ settings'.icons = settings.icons
          /\ settings'.groups = settings.groups
          /\ (\A f \in Fields : KeySet(settings[f]) = KeySet(settings.snippets)) =>
                 (\A f \in Fields : KeySet(settings'[f]) = KeySet(settings'.snippets))
      ]_vars

\* the text of "hello" was replaced by "x" after an edit had given it the icon "hand"
\* (and had moved it behind "greet")
C32_Witness ==
    /\ Loaded
    /\ last.op = "replace"
    /\ last.key = Hello
    /\ Keys(settings.snippets) = <<Greet, Hello>>
    /\ Get(settings.snippets, Hello) = X
    /\ Get(settings.icons, Hello) = Hand
    /\ Get(settings.groups, Hello) = <<>>



\* the step is the drop handler run for two different rows
DropOnOtherRow ==
    /\ nOps' = nOps + 1
    /\ last'.op = "reorder"
    /\ last'.from # last'.to

\* the index of a key in a list of keys
IndexOf(keys, k) == CHOOSE i \in 1..Len(keys) : keys[i] = k

\* C33: a drop of the row of X on the row of Y moves the record X to the position the
\* record Y had, whatever the search filter the list was rendered with
C33_DropMovesDraggedRecord ==
    [][DropOnOtherRow =>
          LET x == rows[last'.from + 1]
              y == rows[last'.to + 1]
          IN  (Has(settings.snippets, x) /\ Has(settings.snippets, y)) =>
                  /\ Has(settings'.snippets, x)
                  /\ IndexOf(Keys(settings'.snippets), x) = IndexOf(Keys(settings.snippets), y)
      ]_vars



\* the step is the drop handler run up to its save
ReorderStep == Mutation /\ last'.op = "reorder"

\* C34: a reorder is a permutation: the repository has the same keys after it as
\* before, and every key has the same text, icon and group
C34_ReorderIsPermutation ==
    [][ReorderStep =>
          /\ KeySet(settings'.snippets) = KeySet(settings.snippets)
          /\ \A k \in KeySet(settings.snippets) :
                 \A f \in Fields : Get(settings'[f], k) = Get(settings[f], k)
      ]_vars



\* the step is an add, a confirmed replace, an update or a delete that reached its save
TargetedStep == Mutation /\ last'.op \in {"add", "replace", "update", "delete"}

\* the keys the step targets: its key, and for an update the original key
Targets == {last'.key, last'.orig}

\* C35: add, confirmed replace, update and delete change no record but their target:
\* every other key of the repository is still a key, with the same text, icon and group,
\* and the other keys are in the same order as before
C35_OtherRecordsUntouched ==
    [][TargetedStep =>
          /\ \A k \in KeySet(settings.snippets) \ Targets :
                 /\ Has(settings'.snippets, k)
                 /\ \A f \in Fields : Get(settings'[f], k) = Get(settings[f], k)
          /\ SelectSeq(Keys(settings'.snippets), LAMBDA k : k \notin Targets)
                 = SelectSeq(Keys(settings.snippets), LAMBDA k : k \notin Targets)
      ]_vars

\* "a" was added to the default settings: "hello" and "greet" are in front of it as before
\* and "greet" still has its icon "hand"
C35_Witness ==
    /\ Loaded
    /\ last.op = "add"
    /\ last.key = KA
    /\ last.result = "ok"
    /\ Keys(settings.snippets) = <<Hello, Greet, KA>>
    /\ Get(settings.snippets, Greet) = GreetText
    /\ Get(settings.icons, Greet) = Hand


\* C36: for a non-empty selection without brace characters the result of processTemplate
\* has no token {digits} left: every placeholder of the template, {0} and tokens with a
\* leading zero such as {01} included, is removed or replaced; stated for selections
\* without a "$", which String.prototype.replace reads as a pattern
C36_NoTokenLeft ==
    (/\ out # <<>>
     /\ Truthy(sel)
     /\ \A i \in 1..Len(sel) : sel[i] \notin {"{", "}", "$"}) => ~HasToken(out[1])


\* C37: the text put in for a placeholder is the selected line character for character,
\* also for a line that holds a "$" ("$$", "$&", "$1"): the templates "{1}" and ">{1}"
\* give the first line, after ">" for the second
C37_LineVerbatim ==
    (out # <<>> /\ Truthy(sel) /\ Len(Lines(sel)) >= 1) =>
        /\ tpl = P1 => out[1] = Lines(sel)[1]
        /\ tpl = <<">">> \o P1 => out[1] = <<">">> \o Lines(sel)[1]



\* every text of the repository is a non-empty string
AllTextsNonEmpty(s) == \A i \in 1..Len(s.snippets) : NonEmptyString(s.snippets[i][2])

\* the step is handleAddSnippet or handleSave run to its end
AddOrUpdate == nOps' = nOps + 1 /\ last'.op \in {"add", "update"}

\* C38: add, confirmed replace and update keep every text of the repository a non-empty
\* string (add and update with an empty key or an empty text change nothing), and while
\* the texts are non-empty, add and rename find a key already existing exactly when it
\* is a key of the snippets map
C38_TextsNonEmptyAndKeysDetected ==
    [][/\ (Mutation /\ last'.op \in {"add", "replace", "update"} /\ AllTextsNonEmpty(settings))
              => AllTextsNonEmpty(settings')
       /\ (AddOrUpdate /\ (~Truthy(last'.key) \/ ~Truthy(last'.value)))
              => (last'.result = "missing" /\ settings' = settings)
       /\ (AddOrUpdate /\ AllTextsNonEmpty(settings) /\ last'.op = "add"
              /\ last'.result \in {"ok", "confirm"})
              => (last'.result = "confirm" <=> Has(settings.snippets, last'.key))
       /\ (AddOrUpdate /\ AllTextsNonEmpty(settings) /\ last'.op = "update"
              /\ last'.key # last'.orig /\ last'.result \in {"ok", "exists"})
              => (last'.result = "exists" <=> Has(settings.snippets, last'.key))
      ]_vars



-----------------------------------------------------------------------------
(* The plugin is unloaded *)

\* InsertivePlugin.onunload: commandManager.destroy() clears the commands, then the
\* managers and the settings are set to null
Unload ==
    /\ phase = "loaded"
    /\ phase' = "unloaded"
    /\ registered' = {}
    /\ settings' = Unset
    /\ last' = [NoOp EXCEPT !.op = "unload"]
    /\ UNCHANGED <<disk, inflight, rows, listening, modal, notices, nOps, nIssued,
                   nSettled, nFailed, nResync>>
    /\ UNCHANGED <<tplVars, valVars, menu>>

\* saveData resolved after onunload and saveSettings registers the commands of what
\* was written
SaveResolvedUnloadedRegistering(w) ==
    /\ phase = "unloaded"
    /\ w \in inflight
    /\ inflight' = inflight \ {w}
    /\ disk' = w.data
    /\ nSettled' = nSettled + 1
    /\ registered' = KeySet(w.data.snippets[1])
    /\ nResync' = nResync + 1
    /\ UNCHANGED <<phase, settings, rows, listening, modal, notices, last, nOps, nIssued,
                   nFailed>>
    /\ UNCHANGED <<tplVars, valVars, menu>>

\* saveData resolved after onunload: this.commandManager is null, the call of
\* registerSnippetCommands throws and the catch of saveSettings raises the notice
SaveResolvedUnloaded(w) ==
    /\ phase = "unloaded"
    /\ w \in inflight
    /\ inflight' = inflight \ {w}
    /\ disk' = w.data
    /\ nSettled' = nSettled + 1
    /\ notices' = notices + 1
    /\ UNCHANGED <<phase, settings, registered, rows, listening, modal, last, nOps,
                   nIssued, nFailed, nResync>>
    /\ UNCHANGED <<tplVars, valVars, menu>>

\* saveData rejected after onunload: the catch of saveSettings
SaveRejectedUnloaded(w) ==
    /\ phase = "unloaded"
    /\ w \in inflight
    /\ inflight' = inflight \ {w}
    /\ nSettled' = nSettled + 1
    /\ nFailed' = nFailed + 1
    /\ notices' = notices + 1
    /\ UNCHANGED <<phase, settings, disk, registered, rows, listening, modal, last, nOps,
                   nIssued, nResync>>
    /\ UNCHANGED <<tplVars, valVars, menu>>

ResolveUnloaded == \E w \in inflight : SaveResolvedUnloaded(w)

RejectUnloaded == \E w \in inflight : SaveRejectedUnloaded(w)

NextUnload ==
    \/ Next
    \/ Unload
    \/ ResolveUnloaded
    \/ RejectUnloaded

SpecUnload == Init /\ [][NextUnload]_vars

\* C39: after onunload no snippet command is registered, and none is registered again,
\* also when a save issued before the unload resolves after it
C39_NoCommandAfterUnload == phase = "unloaded" => registered = {}

\* a save issued before the unload has resolved after it: its notice was raised, no
\* write was rejected, and no command is registered
C39_Witness ==
    /\ phase = "unloaded"
    /\ inflight = {}
    /\ nIssued = 1
    /\ nSettled = 1
    /\ nFailed = 0
    /\ notices = 1
    /\ registered = {}

====
